---- MODULE Spec2Model ----
(***************************************************************************)
(* Retrieval-augmented question answering: the orchestration state machine *)
(* of src/graph/graph.py (a LangGraph StateGraph over GraphState) and the  *)
(* nodes it wires together.                                                *)
(*                                                                         *)
(* A query is a run of the compiled workflow.  Each node returns a partial *)
(* update that the framework merges into the query's GraphState; the       *)
(* conditional function attached to the node is then evaluated on the      *)
(* merged state and its key is looked up in the edge map to select the     *)
(* next node.  One action models one superstep: the node, the merge and    *)
(* the routing decision that follows it.                                   *)
(*                                                                         *)
(* The oracles (router, store similarity search, relevance grader,         *)
(* generator, hallucination grader, answer grader, web search) are         *)
(* external calls; their responses are the inputs of the actions and are   *)
(* recorded, in call order, in the query's log.                            *)
(***************************************************************************)
EXTENDS Integers, Sequences, FiniteSets, TLC

\* ------------------------------------------------------------------ bounds
\* Supersteps recorded per query in a traced run.
MaxSteps == 6
\* Supersteps recorded of a query over the large index.
MaxWideSteps == 3
\* Documents held by the large index; more than k, so that the cut applies.
NumIndexed == 6
\* Documents held by the vector store.
NumDocs == 2
\* Ids the store generates in one run of store calls.
MaxIds == 3
\* Calls made on the store in one run.
MaxCalls == 3
\* Documents passed to one store_documents call.
MaxBatch == 2
\* Distinct documents the web search can produce.
NumWebDocs == 1

\* --------------------------------------------------------------- constants
\* k of the similarity search issued by the retrieve node.
K == 5

\* Node names (core/constants.py) and the framework's virtual nodes.
RETRIEVE == "retrieve"
GRADE_DOCUMENTS == "grade_documents"
GENERATE == "generate"
WEBSEARCH == "websearch"
START == "__start__"
END == "__end__"
\* What a conditional function yields when it falls off its last branch.
None == "None"
\* Where a run stands after a key that its edge map does not hold.
Halted == "__halted__"
\* Where a query stands once an exception has left the graph invocation.
Raised == "__raised__"

Nodes == {RETRIEVE, GRADE_DOCUMENTS, GENERATE, WEBSEARCH}

\* The two concurrent queries the hosting service may run; each owns its state.
Queries == {1, 2}

Questions == {"What are the types of agent memory?", "What is the weather?"}
TopicLists == {<<"agents">>, <<>>}
Generations == {"answer A", "answer B"}

\* RouteQuery.datasource is a Literal of these two values.
Datasources == {"vectorstore", "websearch"}

\* ------------------------------------------------------------------ state
VARIABLES
    mode,   \* "trace": one traced query;
            \* "hallucinating", "offtopic": one untraced query, graders fixed;
            \* "wide": one traced query over a large index; "fail": one
            \* traced query whose calls may raise; "store": store calls only;
            \* "digest": digests only; "service": indexing service calls only;
            \* "unsettled", "settled": one untraced query, before and after
            \* the graders turn positive for good
    node,   \* node[q]: the node query q runs next
    state,  \* state[q]: the GraphState of query q
    steps,  \* steps[q]: the number of supersteps the run of query q has taken
    path,   \* path[q]: the nodes query q has run, in order
    log,    \* log[q]: the oracle responses query q has received, in order
    rows,   \* the rows of the collection's embedding table
    nextId, \* the number of ids the store has generated, plus one
    calls,  \* the calls made on the store or the service, with their outcomes
    records \* the keys the record manager of the indexing service holds

storeVars == <<rows, nextId, calls, records>>

vars == <<mode, node, state, steps, path, log, rows, nextId, calls, records>>

\* ---------------------------------------------------------------- helpers
Min(a, b) == IF a < b THEN a ELSE b

RECURSIVE Perms(_)
\* All sequences that list each element of S once.
Perms(S) ==
    IF S = {} THEN {<<>>}
    ELSE UNION {{<<x>> \o p : p \in Perms(S \ {x})} : x \in S}

\* The elements of s at the positions where keep is TRUE, in order.
RECURSIVE FilterBy(_, _)
FilterBy(s, keep) ==
    IF s = <<>> THEN <<>>
    ELSE (IF Head(keep) THEN <<Head(s)>> ELSE <<>>) \o FilterBy(Tail(s), Tail(keep))

\* -------------------------------------------------------------- documents
StoreDoc(i) == [source |-> "vectorstore", id |-> i]
WebDoc(i) == [source |-> "websearch", id |-> i]

\* The ranked hit lists the vector index may answer a question with.
RankedHits == UNION {Perms(S) : S \in SUBSET {StoreDoc(i) : i \in 1..NumDocs}}

\* What the web search oracle may answer: nothing, or one formatted document.
WebResults == {<<>>} \cup {<<WebDoc(i)>> : i \in 1..NumWebDocs}

\* PGVectorDatabase.retrieve_documents: the k best hits, in rank order.
retrieve_documents(hits, k) == SubSeq(hits, 1, Min(k, Len(hits)))

\* ------------------------------------------------------------- GraphState
\* GraphState(question=..., client_topics=...) with the declared defaults.
GraphState(question, client_topics) ==
    [question |-> question,
     generation |-> "",
     web_search |-> FALSE,
     documents |-> <<>>,
     client_topics |-> client_topics]

\* The framework writes each key of a node's returned dict over the state's.
Merge(s, update) ==
    [f \in DOMAIN s |-> IF f \in DOMAIN update THEN update[f] ELSE s[f]]

\* ------------------------------------------------------------------ nodes
\* The node writes a rewritten question back into the state.
retrieve_rewrites_question(s, hits) ==
    [documents |-> retrieve_documents(hits, K), question |-> "rewritten"]

\* The node returns the documents it found in the state followed by the hits.
retrieve_appends_documents(s, hits) ==
    [documents |-> s.documents \o retrieve_documents(hits, K),
     question |-> s.question]

\* retrieve: replaces documents by the search result for the question.
retrieve(s, hits) ==
    [documents |-> retrieve_documents(hits, K), question |-> s.question]

\* Web search is asked for only when no document is left.
grade_documents_flags_only_when_empty(s, grades) ==
    LET filtered == FilterBy(s.documents, grades)
    IN [documents |-> filtered,
        question |-> s.question,
        web_search |-> filtered = <<>>]

\* grade_documents: keeps the documents graded relevant; asks for web search
\* when one was dropped or none is left.
grade_documents(s, grades) ==
    LET filtered == FilterBy(s.documents, grades)
    IN [documents |-> filtered,
        question |-> s.question,
        web_search |-> (\E i \in 1..Len(grades) : ~grades[i]) \/ filtered = <<>>]

\* web_search: replaces documents by the search-engine results.
web_search(s, results) ==
    [documents |-> results, question |-> s.question]

\* generate: overwrites generation with the generator's answer.
generate(s, answer) ==
    [documents |-> s.documents, question |-> s.question, generation |-> answer]

\* -------------------------------------------------- conditional functions
\* Variants of the conditional functions, each with one slip.
\* The web_search flag is not consulted.
decide_to_generate_ignores_flag(s) ==
    IF s.documents = <<>> THEN WEBSEARCH ELSE GENERATE

\* The emptiness test is inverted.
decide_to_generate_inverted(s) ==
    IF s.web_search THEN WEBSEARCH
    ELSE IF s.documents # <<>> THEN WEBSEARCH
    ELSE GENERATE

decide_to_generate(s) ==
    IF s.web_search THEN WEBSEARCH
    ELSE IF s.documents = <<>> THEN WEBSEARCH
    ELSE GENERATE

\* An ungrounded generation is reported as off-topic.
grade_generation_ungrounded_is_not_useful(grounded, addresses) ==
    IF grounded
    THEN (IF addresses THEN "useful" ELSE "not useful")
    ELSE "not useful"

\* An off-topic generation is reported as ungrounded.
grade_generation_off_topic_is_not_supported(grounded, addresses) ==
    IF grounded
    THEN (IF addresses THEN "useful" ELSE "not supported")
    ELSE "not supported"

\* grounded: the hallucination grader's binary_score; addresses: the answer
\* grader's, consulted only when grounded.
grade_generation_grounded_in_documents_and_question(grounded, addresses) ==
    IF grounded
    THEN (IF addresses THEN "useful" ELSE "not useful")
    ELSE "not supported"

\* The two branches return each other's key.
route_question_swapped(datasource) ==
    IF datasource = WEBSEARCH THEN RETRIEVE
    ELSE IF datasource = "vectorstore" THEN WEBSEARCH
    ELSE None

route_question(datasource) ==
    IF datasource = WEBSEARCH THEN WEBSEARCH
    ELSE IF datasource = "vectorstore" THEN RETRIEVE
    ELSE None

\* ------------------------------------------------------------------ edges
\* The web-search route enters at GENERATE.
EntryEdges_websearch_generates == (WEBSEARCH :> GENERATE) @@ (RETRIEVE :> RETRIEVE)

EntryEdges == (WEBSEARCH :> WEBSEARCH) @@ (RETRIEVE :> RETRIEVE)

\* The WEBSEARCH key leads to GENERATE.
GradeDocumentsEdges_websearch_generates ==
    (WEBSEARCH :> GENERATE) @@ (GENERATE :> GENERATE)

GradeDocumentsEdges == (WEBSEARCH :> WEBSEARCH) @@ (GENERATE :> GENERATE)

\* Variants of the edge maps, each with one target changed.
GenerateEdges_not_useful_ends ==
    ("not supported" :> GENERATE) @@ ("useful" :> END) @@ ("not useful" :> END)

GenerateEdges_useful_searches ==
    ("not supported" :> GENERATE) @@ ("useful" :> WEBSEARCH) @@ ("not useful" :> WEBSEARCH)

GenerateEdges_not_supported_ends ==
    ("not supported" :> END) @@ ("useful" :> END) @@ ("not useful" :> WEBSEARCH)

\* A useful generation is generated again.
GenerateEdges_useful_retries ==
    ("not supported" :> GENERATE) @@ ("useful" :> GENERATE)
        @@ ("not useful" :> WEBSEARCH)

\* The map has no entry for an ungrounded generation.
GenerateEdges_not_supported_missing ==
    ("useful" :> END) @@ ("not useful" :> WEBSEARCH)

GenerateEdges ==
    ("not supported" :> GENERATE) @@ ("useful" :> END) @@ ("not useful" :> WEBSEARCH)

PlainEdges_retrieve_skips_grading == (RETRIEVE :> GENERATE) @@ (WEBSEARCH :> GENERATE)

\* add_edge(RETRIEVE, GRADE_DOCUMENTS) and add_edge(WEBSEARCH, GENERATE).
PlainEdges == (RETRIEVE :> GRADE_DOCUMENTS) @@ (WEBSEARCH :> GENERATE)

\* The node a key selects; a key outside the map selects none.
Follow(edges, key) == IF key \in DOMAIN edges THEN edges[key] ELSE Halted

\* ---------------------------------------------------------------- history
Entry(oracle, out) == [oracle |-> oracle, out |-> out]

\* History is kept while the run is traced; the bound is on the recorded steps.
Traced == mode \in {"trace", "wide", "fail"}

StepLimit ==
    IF mode = "wide" THEN MaxWideSteps ELSE MaxSteps

\* run_workflow calls app.ainvoke(state) without a config, so the run has
\* the graph runtime's default budget of supersteps, one per node executed.
RecursionLimit == 25

MayStep(q) ==
    /\ Traced => Len(path[q]) < StepLimit
    /\ steps[q] < RecursionLimit

Record(q, n, entries) ==
    /\ steps' = [steps EXCEPT ![q] = @ + 1]
    /\ IF Traced
       THEN /\ path' = [path EXCEPT ![q] = Append(@, n)]
            /\ log' = [log EXCEPT ![q] = @ \o entries]
       ELSE UNCHANGED <<path, log>>

\* A collection nobody has written to.
EmptyStore == rows = {} /\ nextId = 1 /\ calls = <<>> /\ records = {}

\* A run starts when run_workflow is called with an initial GraphState.  The
\* HTTP handlers and main.py reach for attributes of run_workflow itself and
\* raise before any run starts, so they start none of the runs below.
InitQueries(m) ==
    /\ mode = m
    /\ \E qn \in Questions, t \in TopicLists :
           state = [q \in Queries |-> GraphState(qn, t)]
    /\ node = [q \in Queries |-> START]
    /\ steps = [q \in Queries |-> 0]
    /\ path = [q \in Queries |-> <<>>]
    /\ log = [q \in Queries |-> <<>>]
    /\ EmptyStore

\* ---------------------------------------------------------------- actions
\* The conditional entry point: route_question on the initial state.
RouteQuestion(q, datasource) ==
    /\ node[q] = START
    /\ node' = [node EXCEPT ![q] = Follow(EntryEdges, route_question(datasource))]
    /\ log' = [log EXCEPT ![q] =
                  IF Traced
                  THEN Append(@, Entry("router", datasource)) ELSE @]
    /\ UNCHANGED <<mode, state, steps, path, storeVars>>

RetrieveNode(q, hits) ==
    /\ node[q] = RETRIEVE
    /\ MayStep(q)
    /\ state' = [state EXCEPT ![q] = Merge(@, retrieve(@, hits))]
    /\ node' = [node EXCEPT ![q] = PlainEdges[RETRIEVE]]
    /\ Record(q, RETRIEVE, <<Entry("store", hits)>>)
    /\ UNCHANGED <<mode, storeVars>>

GradeDocumentsNode(q, grades) ==
    /\ node[q] = GRADE_DOCUMENTS
    /\ MayStep(q)
    /\ Len(grades) = Len(state[q].documents)
    /\ LET s == Merge(state[q], grade_documents(state[q], grades))
       IN /\ state' = [state EXCEPT ![q] = s]
          /\ node' = [node EXCEPT ![q] =
                         Follow(GradeDocumentsEdges, decide_to_generate(s))]
    /\ Record(q, GRADE_DOCUMENTS, <<Entry("relevance", grades)>>)
    /\ UNCHANGED <<mode, storeVars>>

WebSearchNode(q, results) ==
    /\ node[q] = WEBSEARCH
    /\ MayStep(q)
    /\ state' = [state EXCEPT ![q] = Merge(@, web_search(@, results))]
    /\ node' = [node EXCEPT ![q] = PlainEdges[WEBSEARCH]]
    /\ Record(q, WEBSEARCH, <<Entry("web", results)>>)
    /\ UNCHANGED <<mode, storeVars>>

\* The answer grader is consulted whatever the hallucination grader found.
GenerateNode_answer_grader_always(q, answer, grounded, addresses) ==
    /\ node[q] = GENERATE
    /\ MayStep(q)
    /\ state' = [state EXCEPT ![q] = Merge(@, generate(@, answer))]
    /\ node' = [node EXCEPT ![q] =
                   Follow(GenerateEdges,
                          grade_generation_grounded_in_documents_and_question(
                              grounded, addresses))]
    /\ Record(q, GENERATE,
              <<Entry("generator", answer), Entry("hallucination", grounded),
                Entry("answer", addresses)>>)
    /\ UNCHANGED <<mode, storeVars>>

\* The answer grader is consulted, and its response logged, only when the
\* hallucination grader found the generation grounded.
GenerateNode(q, answer, grounded, addresses) ==
    /\ node[q] = GENERATE
    /\ MayStep(q)
    /\ grounded \/ ~addresses
    /\ state' = [state EXCEPT ![q] = Merge(@, generate(@, answer))]
    /\ node' = [node EXCEPT ![q] =
                   Follow(GenerateEdges,
                          grade_generation_grounded_in_documents_and_question(
                              grounded, addresses))]
    /\ Record(q, GENERATE,
              <<Entry("generator", answer), Entry("hallucination", grounded)>>
              \o (IF grounded THEN <<Entry("answer", addresses)>> ELSE <<>>))
    /\ UNCHANGED <<mode, storeVars>>

\* A node is due and the budget of supersteps is used up: the runtime raises
\* GraphRecursionError, which leaves run_workflow.
GraphRecursionError(q) ==
    /\ node[q] \in Nodes
    /\ steps[q] = RecursionLimit
    /\ node' = [node EXCEPT ![q] = Raised]
    /\ UNCHANGED <<mode, state, steps, path, log, storeVars>>

GradeLists(n) == [1..n -> BOOLEAN]

\* ------------------------------------------------- one traced query (Spec)
Init == InitQueries("trace")

Route == \E d \in Datasources : RouteQuestion(1, d)
Retrieve == \E h \in RankedHits : RetrieveNode(1, h)
GradeDocuments ==
    \E g \in GradeLists(Len(state[1].documents)) : GradeDocumentsNode(1, g)
WebSearch == \E r \in WebResults : WebSearchNode(1, r)
Generate ==
    \E a \in Generations, g \in BOOLEAN, u \in BOOLEAN : GenerateNode(1, a, g, u)

Next == Route \/ Retrieve \/ GradeDocuments \/ WebSearch \/ Generate

Spec == Init /\ [][Next]_vars

\* ------------------------------------- persistently negative graders (LoopSpec)
\* The run is not traced: only its supersteps are counted.  The hallucination
\* grader answers not-grounded on every call ("hallucinating"), or the answer
\* grader answers does-not-address on every call ("offtopic").
LoopInit == \E m \in {"hallucinating", "offtopic"} : InitQueries(m)

GraderPolicy(grounded, addresses) ==
    /\ mode = "hallucinating" => ~grounded
    /\ mode = "offtopic" => ~addresses

PersistentGenerate ==
    \E a \in Generations, g \in BOOLEAN, u \in BOOLEAN :
        GraderPolicy(g, u) /\ GenerateNode(1, a, g, u)

OutOfSteps == GraphRecursionError(1)

LoopNext ==
    \/ Route
    \/ Retrieve
    \/ GradeDocuments
    \/ WebSearch
    \/ PersistentGenerate
    \/ OutOfSteps

\* Every node and oracle call returns, and the framework then schedules the
\* node the edge selected or, out of supersteps, raises.
LoopSpec == LoopInit /\ [][LoopNext]_vars /\ WF_vars(LoopNext)

\* ------------------------------------- graders that come round (SettleSpec)
\* The run is not traced: only its supersteps are counted.  The graders
\* answer as they like until, at a point
\* of their choosing that need not come, they settle: from then on the
\* hallucination grader answers grounded and the answer grader answers
\* addresses-the-question on every call.
SettleInit == InitQueries("unsettled")

Settle ==
    /\ mode = "unsettled"
    /\ mode' = "settled"
    /\ UNCHANGED <<node, state, steps, path, log, storeVars>>

SettledPolicy(grounded, addresses) ==
    mode = "settled" => (grounded /\ addresses)

SettlingGenerate ==
    \E a \in Generations, g \in BOOLEAN, u \in BOOLEAN :
        SettledPolicy(g, u) /\ GenerateNode(1, a, g, u)

GraphStep ==
    \/ Route
    \/ Retrieve
    \/ GradeDocuments
    \/ WebSearch
    \/ SettlingGenerate
    \/ OutOfSteps

SettleNext == GraphStep \/ Settle

\* Every node and oracle call returns, and the framework then schedules the
\* node the edge selected or, out of supersteps, raises.
SettleSpec == SettleInit /\ [][SettleNext]_vars /\ WF_vars(GraphStep)

\* ------------------------------- retrieval over a large index (RetrieveSpec)
\* The index ranks up to NumIndexed documents for a question: the best n of
\* them, in either direction.  The caller may hand in a state that already
\* carries documents; the log starts with what the caller supplied.
Ranking(n, reversed) ==
    [i \in 1..n |-> StoreDoc(IF reversed THEN NumIndexed + 1 - i ELSE i)]

WideHits == {Ranking(n, r) : n \in 0..NumIndexed, r \in BOOLEAN}

SuppliedDocuments == {<<>>, <<WebDoc(1)>>, <<StoreDoc(1), StoreDoc(2)>>}

WideInit ==
    /\ mode = "wide"
    /\ \E qn \in Questions, t \in TopicLists, d \in SuppliedDocuments :
           /\ state = [q \in Queries |-> [GraphState(qn, t) EXCEPT !.documents = d]]
           /\ log = [q \in Queries |-> <<Entry("caller", d)>>]
    /\ node = [q \in Queries |-> START]
    /\ steps = [q \in Queries |-> 0]
    /\ path = [q \in Queries |-> <<>>]
    /\ EmptyStore

WideRetrieve == \E h \in WideHits : RetrieveNode(1, h)

WideNext == Route \/ WideRetrieve \/ GradeDocuments \/ WebSearch \/ Generate

RetrieveSpec == WideInit /\ [][WideNext]_vars

\* ------------------------------------------ calls that may raise (FailSpec)
\* Any store or oracle call of a node or conditional function may raise instead
\* of returning.  Neither retrieve nor the conditional functions nor
\* run_workflow contain a handler, so the exception leaves the invocation.
on_exception_retrieve_continues(n) ==
    IF n = RETRIEVE THEN PlainEdges[RETRIEVE] ELSE Raised

on_exception(n) == Raised

\* The node or conditional function due at n raises in its call to oracle,
\* after the responses in earlier; the failed step's update is not applied.
CallFails(q, n, oracle, earlier) ==
    /\ node[q] = n
    /\ MayStep(q)
    /\ node' = [node EXCEPT ![q] = on_exception(n)]
    /\ path' = [path EXCEPT ![q] = IF n = START THEN @ ELSE Append(@, n)]
    /\ log' = [log EXCEPT ![q] = @ \o earlier \o <<Entry("error", oracle)>>]
    /\ UNCHANGED <<mode, state, steps, storeVars>>

RouterFails == CallFails(1, START, "router", <<>>)
RetrieveFails == CallFails(1, RETRIEVE, "store", <<>>)
GradeDocumentsFails ==
    state[1].documents # <<>> /\ CallFails(1, GRADE_DOCUMENTS, "relevance", <<>>)
WebSearchFails == CallFails(1, WEBSEARCH, "web", <<>>)
GeneratorFails == CallFails(1, GENERATE, "generator", <<>>)
HallucinationGraderFails ==
    \E a \in Generations :
        CallFails(1, GENERATE, "hallucination", <<Entry("generator", a)>>)
AnswerGraderFails ==
    \E a \in Generations :
        CallFails(1, GENERATE, "answer",
                  <<Entry("generator", a), Entry("hallucination", TRUE)>>)

FailInit == InitQueries("fail")

FailNext ==
    \/ Next
    \/ RouterFails
    \/ RetrieveFails
    \/ GradeDocumentsFails
    \/ WebSearchFails
    \/ GeneratorFails
    \/ HallucinationGraderFails
    \/ AnswerGraderFails

FailSpec == FailInit /\ [][FailNext]_vars

\* --------------------------------------------- the document store (StoreSpec)
\* PGVectorDatabase over AsyncPGVector.  A row of the embedding table is
\* [custom_id, document, cmetadata]; metadata is a set of <<key, value>> pairs.
\* A column that is NULL in a row is a field the record does not have.
\* The dictionaries handed to store_documents may lack the 'metadata' key.
InputDocuments ==
    {[content |-> "c1", metadata |-> {<<"source", "test1">>}],
     [content |-> "c2"]}

Batches == UNION {[1..n -> InputDocuments] : n \in 0..MaxBatch}

Document(page_content, metadata) ==
    [page_content |-> page_content, metadata |-> metadata]

\* metadata or {}, for arguments u whose metadata, when None, is left out.
OrEmpty(u) == IF "metadata" \in DOMAIN u THEN u.metadata ELSE {}

\* doc.get('metadata', {})
get_metadata(doc) == IF "metadata" \in DOMAIN doc THEN doc.metadata ELSE {}

\* A document is left out when an earlier one of the batch has its content.
store_documents_deduplicates(documents) ==
    LET fresh == [i \in 1..Len(documents) |->
                     \A j \in 1..(i - 1) : documents[j].content # documents[i].content]
        kept == FilterBy(documents, fresh)
    IN [i \in 1..Len(kept) |-> Document(kept[i].content, get_metadata(kept[i]))]

\* store_documents: the Document list handed to aadd_documents.
store_documents(documents) ==
    [i \in 1..Len(documents) |->
        Document(documents[i].content, get_metadata(documents[i]))]

\* aadd_documents inserts one row per document and returns the ids it
\* generated, in input order; generated ids are never reused.
aadd_documents_ids(docs, first) == [i \in 1..Len(docs) |-> first + i - 1]

aadd_documents_rows(docs, first) ==
    {[custom_id |-> first + i - 1,
      document |-> docs[i].page_content,
      cmetadata |-> docs[i].metadata] : i \in 1..Len(docs)}

\* get_all_ids: the custom_id of each selected row whose custom_id is not
\* None, in the order selected.
get_all_ids(selected) ==
    LET present == [i \in 1..Len(selected) |-> "custom_id" \in DOMAIN selected[i]]
        kept == FilterBy(selected, present)
    IN [i \in 1..Len(kept) |-> kept[i].custom_id]

\* Every retrieved document comes back without its metadata.
get_documents_by_ids_drops_metadata(selected) ==
    [i \in 1..Len(selected) |-> [content |-> selected[i].document, metadata |-> {}]]

\* get_documents_by_ids: a Document per selected row, with cmetadata or {} as
\* its metadata, then a dictionary per Document, in the order selected.
get_documents_by_ids(selected) ==
    LET docs == [i \in 1..Len(selected) |->
                    Document(selected[i].document,
                             IF "cmetadata" \in DOMAIN selected[i]
                             THEN selected[i].cmetadata ELSE {})]
    IN [i \in 1..Len(docs) |->
           [content |-> docs[i].page_content, metadata |-> docs[i].metadata]]

Range(s) == {s[i] : i \in 1..Len(s)}

Reverse(s) == [i \in 1..Len(s) |-> s[Len(s) + 1 - i]]

\* The SELECT has lost its filter.
Matching_every_row(ids) == rows

\* The rows a SELECT ... WHERE custom_id IN (ids) matches; a NULL custom_id
\* matches no list.
Matching(ids) ==
    {r \in rows : "custom_id" \in DOMAIN r /\ r.custom_id \in Range(ids)}

\* A SELECT without ORDER BY returns the matching rows in an order of the
\* database's choosing.
Selected(matching) == Perms(matching)

Call(op, arg, outcome, result) ==
    [op |-> op, arg |-> arg, outcome |-> outcome, result |-> result]

StoreCalls ==
    {i \in 1..Len(calls) :
        calls[i].op = "store_documents" /\ calls[i].outcome = "returned"}

\* The id lists a caller asks about: those a store_documents call returned,
\* forwards or backwards, any single id, generated or not, and none.
Requests ==
    {<<>>} \cup {<<i>> : i \in 1..nextId}
           \cup {calls[i].result : i \in StoreCalls}
           \cup {Reverse(calls[i].result) : i \in StoreCalls}

\* Requests that name a generated id twice.
RepeatedRequests == {<<i, i>> : i \in 1..(nextId - 1)}

\* Requests that name a generated id and one that was never generated.
AbsentRequests == {<<i, nextId>> : i \in 1..(nextId - 1)}

MayCall == Len(calls) < MaxCalls

StoreDocuments ==
    \E documents \in Batches :
        LET docs == store_documents(documents)
        IN /\ MayCall
           /\ nextId + Len(docs) - 1 <= MaxIds
           /\ rows' = rows \cup aadd_documents_rows(docs, nextId)
           /\ nextId' = nextId + Len(docs)
           /\ calls' = Append(calls, Call("store_documents", documents, "returned",
                                         aadd_documents_ids(docs, nextId)))
           /\ UNCHANGED <<mode, node, state, steps, path, log, records>>

GetAllIds ==
    \E selected \in Selected(rows) :
        /\ MayCall
        /\ calls' = Append(calls, Call("get_all_ids", <<>>, "returned",
                                      get_all_ids(selected)))
        /\ UNCHANGED <<mode, node, state, steps, path, log, records, rows, nextId>>

GetDocumentsByIdsOf(requests) ==
    \E ids \in requests :
        \E selected \in Selected(Matching(ids)) :
            /\ MayCall
            /\ calls' = Append(calls, Call("get_documents_by_ids", ids, "returned",
                                          get_documents_by_ids(selected)))
            /\ UNCHANGED <<mode, node, state, steps, path, log, records, rows, nextId>>

GetDocumentsByIds == GetDocumentsByIdsOf(Requests)

\* delete_documents awaits store.delete(ids=ids).  AsyncPGVector defines
\* adelete and no delete, so the call is the synchronous method of the base
\* class on a store built with async_mode=True.  What that library method
\* does there is not code of the repository; either way the call raises: the
\* method refuses to run in async mode (ValueError, no row removed), or it
\* deletes and returns None, which cannot be awaited (TypeError, rows gone).
SyncDeleteOutcomes ==
    {[error |-> "ValueError", removed |-> FALSE],
     [error |-> "TypeError", removed |-> TRUE]}

DeleteDocuments ==
    \E ids \in Requests, d \in SyncDeleteOutcomes :
        /\ MayCall
        /\ rows' = IF d.removed THEN rows \ Matching(ids) ELSE rows
        /\ calls' = Append(calls, Call("delete_documents", ids, "raised", d.error))
        /\ UNCHANGED <<mode, node, state, steps, path, log, records, nextId>>

\* safe_get_documents_by_ids: get_documents_by_ids, with an empty result turned
\* into DocumentNotFoundError, and every exception into DatabaseError.
safe_get_documents_by_ids(documents) ==
    IF documents = <<>>
    THEN [outcome |-> "raised", result |-> "DatabaseError"]
    ELSE [outcome |-> "returned", result |-> documents]

SafeGetDocumentsByIds ==
    \E ids \in {<<>>} \cup {<<i>> : i \in 1..nextId} :
        \E selected \in Selected(Matching(ids)) :
            LET r == safe_get_documents_by_ids(get_documents_by_ids(selected))
            IN /\ MayCall
               /\ calls' = Append(calls, Call("safe_get_documents_by_ids", ids,
                                             r.outcome, r.result))
               /\ UNCHANGED <<mode, node, state, steps, path, log, records, rows, nextId>>

\* The (content, metadata) arguments of update_document; metadata may be
\* None, which is written as a record without the field.
UpdateInputs ==
    {[content |-> "c3", metadata |-> {<<"source", "test_updated">>}],
     [content |-> "c1"]}

UpdateArguments(id, u) ==
    IF "metadata" \in DOMAIN u
    THEN [id |-> id, content |-> u.content, metadata |-> u.metadata]
    ELSE [id |-> id, content |-> u.content]

\* update_document awaits store.delete(ids=[id]) first, and so raises where
\* delete_documents does, with the same two outcomes; the Document is not
\* built and nothing is added.
UpdateDocument ==
    \E id \in 1..nextId, u \in UpdateInputs, d \in SyncDeleteOutcomes :
        /\ MayCall
        /\ rows' = IF d.removed THEN rows \ Matching(<<id>>) ELSE rows
        /\ calls' = Append(calls,
               Call("update_document", UpdateArguments(id, u),
                    "raised", d.error))
        /\ UNCHANGED <<mode, node, state, steps, path, log, records, nextId>>

StoreInit ==
    /\ mode = "store"
    /\ state = [q \in Queries |-> GraphState("What are the types of agent memory?", <<>>)]
    /\ node = [q \in Queries |-> START]
    /\ steps = [q \in Queries |-> 0]
    /\ path = [q \in Queries |-> <<>>]
    /\ log = [q \in Queries |-> <<>>]
    /\ EmptyStore

StoreNext == StoreDocuments \/ GetAllIds \/ GetDocumentsByIds \/ DeleteDocuments

StoreSpec == StoreInit /\ [][StoreNext]_vars

\* Lookups of ids that may be absent or repeated, plain and through the wrapper.
LookupDocumentsByIds ==
    GetDocumentsByIdsOf(Requests \cup RepeatedRequests \cup AbsentRequests)

LookupNext ==
    \/ StoreDocuments
    \/ DeleteDocuments
    \/ LookupDocumentsByIds
    \/ SafeGetDocumentsByIds

LookupSpec == StoreInit /\ [][LookupNext]_vars

\* Updates and the reads that follow them.
UpdateNext == StoreDocuments \/ UpdateDocument \/ GetDocumentsByIds

UpdateSpec == StoreInit /\ [][UpdateNext]_vars


\* ------------------------------------------ a failing backend (FaultSpec)
\* A call on PGVectorDatabase runs inside get_store: the store is created if
\* self.store is None, the body runs, and the store is closed on the way out.
\* failed is the set of these stages that raised.
CallF(op, arg, failed, outcome, result) ==
    [op |-> op, arg |-> arg, failed |-> failed, outcome |-> outcome,
     result |-> result]

FailedOf(c) == IF "failed" \in DOMAIN c THEN c.failed ELSE {}

DatabaseOps ==
    {"store_documents", "retrieve_documents", "get_all_ids",
     "get_documents_by_ids", "delete_documents", "update_document",
     "check_health"}

\* self.store is set once a call has got past the creation of the store.
StoreCreated ==
    \E i \in 1..Len(calls) :
        calls[i].op \in DatabaseOps /\ "create" \notin FailedOf(calls[i])

\* What the backend may do to one call: creation can fail only while
\* self.store is None, and then neither the body nor the close is reached.
Faults ==
    {{}, {"call"}, {"close"}, {"call", "close"}}
        \cup (IF StoreCreated THEN {} ELSE {{"create"}})

\* async with self.get_store() as store: <body>
get_store(failed) == IF failed = {} THEN "returned" ELSE "raised"

\* An exception of the close escapes check_health.
check_health_close_escapes(failed) ==
    IF "close" \in failed
    THEN [outcome |-> "raised", result |-> "Exception"]
    ELSE [outcome |-> "returned", result |-> failed = {}]

\* check_health: True when the block completes, False on any Exception.
check_health(failed) ==
    IF get_store(failed) = "raised"
    THEN [outcome |-> "returned", result |-> FALSE]
    ELSE [outcome |-> "returned", result |-> TRUE]

CheckHealth ==
    \E failed \in Faults :
        LET r == check_health(failed)
        IN /\ MayCall
           /\ calls' = Append(calls, CallF("check_health", <<>>, failed,
                                          r.outcome, r.result))
           /\ UNCHANGED <<mode, node, state, steps, path, log, records, rows, nextId>>

\* The other methods of PGVectorDatabase hold no handler, and the methods of
\* AsyncPGVector they call log and re-raise.
propagate(failed) ==
    IF get_store(failed) = "raised"
    THEN [outcome |-> "raised", result |-> "Exception"]
    ELSE [outcome |-> "returned", result |-> None]

\* The reads the backend fails: nothing is written, whatever stage raised.
FailingReads == {"retrieve_documents", "get_all_ids"}

BackendFailure ==
    \E op \in FailingReads, failed \in Faults \ {{}} :
        LET r == propagate(failed)
        IN /\ MayCall
           /\ calls' = Append(calls, CallF(op, <<>>, failed, r.outcome, r.result))
           /\ UNCHANGED <<mode, node, state, steps, path, log, records, rows, nextId>>

\* AsyncPGVector.update_document: adelete, then aadd_documents, each committing
\* on its own; any exception is logged and turned into False.  The id of the
\* added document is generated, so the comparison with document_id fails.
update_document_result(added_ids, document_id) ==
    Len(added_ids) > 0 /\ added_ids[1] = document_id

Running == {i \in 1..Len(calls) : calls[i].outcome = "running"}

\* adelete: it raises and the call is over, or it commits and the call goes on.
StoreUpdateDelete ==
    \E id \in 1..(nextId - 1), u \in UpdateInputs, fails \in BOOLEAN :
        LET arg == UpdateArguments(id, u)
        IN /\ MayCall
           /\ Running = {}
           /\ nextId <= MaxIds
           /\ rows' = IF fails THEN rows ELSE rows \ Matching(<<id>>)
           /\ calls' = Append(calls,
                  IF fails
                  THEN CallF("AsyncPGVector.update_document", arg, {"call"},
                             "returned", FALSE)
                  ELSE CallF("AsyncPGVector.update_document", arg, {},
                             "running", None))
           /\ UNCHANGED <<mode, node, state, steps, path, log, records, nextId>>

\* aadd_documents: it raises, or it commits the new row under a generated id.
StoreUpdateAdd ==
    \E i \in Running, fails \in BOOLEAN :
        LET arg == calls[i].arg
            docs == <<Document(arg.content, OrEmpty(arg))>>
        IN /\ rows' = IF fails THEN rows
                      ELSE rows \cup aadd_documents_rows(docs, nextId)
           /\ nextId' = IF fails THEN nextId ELSE nextId + 1
           /\ calls' = [calls EXCEPT ![i] =
                  IF fails
                  THEN CallF(@.op, arg, {"call"}, "returned", FALSE)
                  ELSE CallF(@.op, arg, {}, "returned",
                             update_document_result(
                                 aadd_documents_ids(docs, nextId), arg.id))]
           /\ UNCHANGED <<mode, node, state, steps, path, log, records>>

FaultNext ==
    \/ StoreDocuments
    \/ GetAllIds
    \/ CheckHealth
    \/ BackendFailure
    \/ StoreUpdateDelete
    \/ StoreUpdateAdd

FaultSpec == StoreInit /\ [][FaultNext]_vars

\* ------------------------------------------------- digests (DigestSpec)
\* Strings are sequences of characters.  A dict is the sequence of its items
\* in insertion order, which is the order json.dumps writes them in.
MaxDigests == 2

Keys == {"a", "b"}
Values == {1, 2}

Item(k, v) == [key |-> k, value |-> v]

\* The dicts over Keys and Values, in every insertion order.
Dicts ==
    {<<>>}
      \cup {<<Item(k, v)>> : k \in Keys, v \in Values}
      \cup {<<Item(k[1], v[1]), Item(k[2], v[2])>> :
                k \in {kk \in Keys \X Keys : kk[1] # kk[2]}, v \in Values \X Values}

\* page_content values, among them some that end like a serialised dict.
Contents ==
    {<<>>, <<"x">>, <<"x", "{", "}">>,
     <<"x", "{", "\"", "a", "\"", ":", " ", "1", "}">>}

\* DocumentModel(page_content, metadata); metadata None is a missing field.
DocumentModels ==
    {[page_content |-> c, metadata |-> m] : c \in Contents, m \in Dicts}
        \cup {[page_content |-> c] : c \in Contents}

\* self.metadata or {}
metadata_or_empty(doc) ==
    IF "metadata" \in DOMAIN doc THEN doc.metadata ELSE <<>>

\* json.dumps of a str key and of an int value.
dumps_key(k) == <<"\"", k, "\"">>
dumps_value(v) == <<ToString(v)>>

RECURSIVE dumps_items(_)
dumps_items(items) ==
    IF items = <<>> THEN <<>>
    ELSE dumps_key(items[1].key) \o <<":", " ">> \o dumps_value(items[1].value)
           \o (IF Len(items) = 1 THEN <<>> ELSE <<",", " ">>)
           \o dumps_items(Tail(items))

\* json.dumps(d): the items in insertion order, no sort_keys.
json_dumps(d) == <<"{">> \o dumps_items(d) \o <<"}">>

\* hashlib.md5(...).hexdigest(), taken to be injective.
md5_hexdigest(string) == <<"md5", string>>

\* The metadata is left out of the digest.
generate_digest_content_only(doc) == md5_hexdigest(doc.page_content)

generate_digest(doc) ==
    LET content == doc.page_content \o json_dumps(metadata_or_empty(doc))
    IN md5_hexdigest(content)

GenerateDigest ==
    \E doc \in DocumentModels :
        /\ Len(calls) < MaxDigests
        /\ calls' = Append(calls, Call("generate_digest", doc, "returned",
                                      generate_digest(doc)))
        /\ UNCHANGED <<mode, node, state, steps, path, log, records, rows, nextId>>

DigestInit ==
    /\ mode = "digest"
    /\ state = [q \in Queries |-> GraphState("What are the types of agent memory?", <<>>)]
    /\ node = [q \in Queries |-> START]
    /\ steps = [q \in Queries |-> 0]
    /\ path = [q \in Queries |-> <<>>]
    /\ log = [q \in Queries |-> <<>>]
    /\ EmptyStore

DigestNext == GenerateDigest

DigestSpec == DigestInit /\ [][DigestNext]_vars

\* -------------------------------------------- indexing service (ServiceSpec)
\* The batches handed to the service: documents with a digest in their
\* metadata, one of them twice, one that is the changed version of a stored
\* document of source s1, and a document without digest.
ServiceBatches ==
    {<<>>,
     <<Document("c1", {<<"digest", "g1">>})>>,
     <<Document("c1", {<<"digest", "g1">>}), Document("c2", {<<"digest", "g2">>})>>,
     <<Document("c2", {<<"digest", "g2">>}), Document("c2", {<<"digest", "g2">>})>>,
     <<Document("c4 changed", {<<"source", "s1">>, <<"digest", "g4 changed">>})>>,
     <<Document("c3", {})>>}

\* Rows the collection may hold when the service is constructed, written by
\* another client of the table: one with the digest of a service document,
\* one of source s1 with a digest of its own.
StoredRows ==
    {[custom_id |-> <<"uuid", 1>>, document |-> "c1",
      cmetadata |-> {<<"digest", "g1">>}],
     [custom_id |-> <<"uuid", 2>>, document |-> "c4",
      cmetadata |-> {<<"source", "s1">>, <<"digest", "g4">>}]}

HasKey(metadata, key) == \E p \in metadata : p[1] = key

\* doc.metadata[source_id_key]
source_id(metadata, key) == (CHOOSE p \in metadata : p[1] = key)[2]

\* The key of a document in the record manager: a hash of its content and
\* metadata, taken to be injective.
uid(doc) == <<"uid", doc.page_content, doc.metadata>>

\* index() drops a document that an earlier one of the batch equals.
deduplicate_in_order(docs) ==
    FilterBy(docs, [i \in 1..Len(docs) |->
                      \A j \in 1..(i - 1) : uid(docs[j]) # uid(docs[i])])

\* index() writes with vector_store.add_documents(docs_to_index, ids=uids,
\* batch_size=batch_size); the override add_documents(self, docs) takes no
\* keyword arguments.
vector_store_add_documents(docs) ==
    [outcome |-> "raised", result |-> "TypeError", rows |-> rows]

\* langchain's index(docs, record_manager, vector_store, cleanup=...,
\* source_id_key=...), for a batch that fits one batch_size.
index(docs, cleanup, source_id_key) ==
    LET raised(error) ==
            [outcome |-> "raised", result |-> error,
             rows |-> rows, records |-> records]
        hashed_docs == deduplicate_in_order(docs)
        uids == {uid(hashed_docs[i]) : i \in 1..Len(hashed_docs)}
        source_ids ==
            {source_id(hashed_docs[i].metadata, source_id_key) :
                i \in 1..Len(hashed_docs)}
        keys == {r.key : r \in records}
        docs_to_index ==
            FilterBy(hashed_docs,
                     [i \in 1..Len(hashed_docs) |-> uid(hashed_docs[i]) \notin keys])
        written == vector_store_add_documents(docs_to_index)
        rows_written == IF docs_to_index = <<>> THEN rows ELSE written.rows
        records_written ==
            records \cup
                {[key |-> uid(docs_to_index[i]),
                  group_id |-> source_id(docs_to_index[i].metadata, source_id_key)] :
                    i \in 1..Len(docs_to_index)}
        stale ==
            CASE cleanup = "incremental" ->
                   {r \in records_written :
                       r.group_id \in source_ids /\ r.key \notin uids}
              [] cleanup = "full" -> {r \in records_written : r.key \notin uids}
              [] OTHER -> {}
    IN IF cleanup \notin {"incremental", "full", None}
       THEN raised("ValueError")
       ELSE IF \E i \in 1..Len(hashed_docs) :
                  ~HasKey(hashed_docs[i].metadata, source_id_key)
       THEN raised("KeyError")
       ELSE IF docs_to_index # <<>> /\ written.outcome = "raised"
       THEN raised(written.result)
       ELSE [outcome |-> "returned",
             result |-> [num_added |-> Len(docs_to_index),
                         num_updated |-> 0,
                         num_skipped |-> Len(hashed_docs) - Len(docs_to_index),
                         num_deleted |-> Cardinality(stale)],
             rows |-> {r \in rows_written :
                          r.custom_id \notin {d.key : d \in stale}},
             records |-> records_written \ stale]

update_collection(docs, cleanup_mode) == index(docs, cleanup_mode, "digest")

add_documents(docs) == update_collection(docs, "none")

replace_collection(docs) == update_collection(docs, "full")

ServiceCall(op, docs, r) ==
    /\ MayCall
    /\ rows' = r.rows
    /\ records' = r.records
    /\ calls' = Append(calls, Call(op, docs, r.outcome, r.result))
    /\ UNCHANGED <<mode, node, state, steps, path, log, nextId>>

UpdateCollection ==
    \E docs \in ServiceBatches :
        ServiceCall("update_collection", docs, update_collection(docs, "incremental"))

AddDocuments ==
    \E docs \in ServiceBatches :
        ServiceCall("add_documents", docs, add_documents(docs))

ReplaceCollection ==
    \E docs \in ServiceBatches :
        ServiceCall("replace_collection", docs, replace_collection(docs))

\* The id lists handed to adelete: none, a stored id, both stored ids, and
\* an id no row has.
DeleteRequests ==
    {<<>>, <<<<"uuid", 1>>>>, <<<<"uuid", 1>>, <<"uuid", 2>>>>, <<<<"uuid", 3>>>>}

\* adelete runs the inherited delete in an executor; the record manager is
\* not told.  The inherited method is library code: it removes the rows whose
\* id is among ids and returns, or it refuses to run on this store and raises.
adelete(ids, refused) ==
    IF refused
    THEN [outcome |-> "raised", result |-> "ValueError",
          rows |-> rows, records |-> records]
    ELSE [outcome |-> "returned", result |-> None,
          rows |-> {r \in rows : r.custom_id \notin Range(ids)},
          records |-> records]

Delete ==
    \E ids \in DeleteRequests, refused \in BOOLEAN :
        ServiceCall("adelete", ids, adelete(ids, refused))

ServiceInit ==
    /\ mode = "service"
    /\ state = [q \in Queries |-> GraphState("What are the types of agent memory?", <<>>)]
    /\ node = [q \in Queries |-> START]
    /\ steps = [q \in Queries |-> 0]
    /\ path = [q \in Queries |-> <<>>]
    /\ log = [q \in Queries |-> <<>>]
    /\ rows \in SUBSET StoredRows
    /\ nextId = 1
    /\ calls = <<>>
    /\ records = {}

ServiceNext == UpdateCollection \/ AddDocuments \/ ReplaceCollection \/ Delete

ServiceSpec == ServiceInit /\ [][ServiceNext]_vars

\* ------------------------------------------------ ingestion API (ApiSpec)
\* GET /documents/: 404 when the database returned no document at all, 500
\* when it raised, 200 with a DocumentResponse per document otherwise.
HTTPException(status_code, detail) ==
    [status_code |-> status_code, detail |-> detail]

get_documents_by_ids_endpoint(r) ==
    IF r.outcome = "raised"
    THEN HTTPException(500, r.result)
    ELSE IF r.result = <<>>
    THEN HTTPException(404, "One or more IDs not found")
    ELSE [status_code |-> 200,
          body |-> [i \in 1..Len(r.result) |->
                       [page_content |-> r.result[i].content,
                        metadata |-> r.result[i].metadata]]]

\* The id lists a client asks about: none, any single id, generated or not,
\* and any two different ids of which the first was generated.
ApiRequests ==
    {<<>>} \cup {<<i>> : i \in 1..nextId}
           \cup {<<i, j>> \in (1..(nextId - 1)) \X (1..nextId) : i # j}

ApiGetDocumentsByIds ==
    \E ids \in ApiRequests, failed \in {{}, {"call"}} :
        \E selected \in Selected(Matching(ids)) :
            LET r == IF failed = {}
                     THEN [outcome |-> "returned",
                           result |-> get_documents_by_ids(selected)]
                     ELSE propagate(failed)
            IN /\ MayCall
               /\ calls' = Append(calls, CallF("GET /documents/", ids, failed,
                                              "responded",
                                              get_documents_by_ids_endpoint(r)))
               /\ UNCHANGED <<mode, node, state, steps, path, log, records, rows, nextId>>

\* The bodies of POST /documents/: lists of DocumentModel.
DocumentModelLists ==
    {<<>>,
     <<[page_content |-> "c1", metadata |-> {<<"source", "test1">>}]>>}

\* POST /documents/ hands langchain Documents to store_documents, which
\* subscripts each of them as a dictionary: with a document in the list the
\* call raises TypeError before the store is entered, and the handler answers
\* 500; nothing is stored.
ApiAddDocuments ==
    \E documents \in DocumentModelLists :
        /\ MayCall
        /\ calls' = Append(calls,
               CallF("POST /documents/", documents, {}, "responded",
                     IF documents = <<>>
                     THEN [status_code |-> 200,
                           body |-> [message |-> "Documents added successfully",
                                     ids |-> <<>>]]
                     ELSE HTTPException(500, "TypeError")))
        /\ UNCHANGED <<mode, node, state, steps, path, log, records, rows, nextId>>

\* The bodies of POST /ingest/text: metadata is a dict, {} by default.
TextDocuments ==
    {[content |-> "c1", metadata |-> {<<"source", "test1">>}],
     [content |-> "c2", metadata |-> {}]}

\* POST /ingest/text stores one dictionary and answers with its id.
ApiIngestText ==
    \E document \in TextDocuments :
        LET docs == store_documents(<<document>>)
            doc_ids == aadd_documents_ids(docs, nextId)
        IN /\ MayCall
           /\ nextId <= MaxIds
           /\ rows' = rows \cup aadd_documents_rows(docs, nextId)
           /\ nextId' = nextId + 1
           /\ calls' = Append(calls,
                  CallF("POST /ingest/text", document, {}, "responded",
                        [status_code |-> 200,
                         body |-> [message |-> "Document ingested successfully",
                                   id |-> doc_ids[1]]]))
           /\ UNCHANGED <<mode, node, state, steps, path, log, records>>

\* DELETE /documents/: delete_documents raises and the handler answers 500;
\* the rows are those delete_documents left.
ApiDeleteDocuments ==
    \E ids \in ApiRequests, d \in SyncDeleteOutcomes :
        /\ MayCall
        /\ rows' = IF d.removed THEN rows \ Matching(ids) ELSE rows
        /\ calls' = Append(calls,
               CallF("DELETE /documents/", ids, {}, "responded",
                     HTTPException(500, d.error)))
        /\ UNCHANGED <<mode, node, state, steps, path, log, records, nextId>>

\* PUT /documents/{doc_id}: update_document raises at its delete and the
\* handler answers 500; nothing is added.
ApiUpdateDocument ==
    \E doc_id \in 1..nextId, update \in UpdateInputs, d \in SyncDeleteOutcomes :
        /\ MayCall
        /\ rows' = IF d.removed THEN rows \ Matching(<<doc_id>>) ELSE rows
        /\ calls' = Append(calls,
               CallF("PUT /documents/{doc_id}", UpdateArguments(doc_id, update),
                     {}, "responded", HTTPException(500, d.error)))
        /\ UNCHANGED <<mode, node, state, steps, path, log, records, nextId>>

\* GET /db-test awaits three database calls in turn, and requests of other
\* clients are served between them.  First store_documents: the test document
\* is stored and its id list is kept as doc_id.
ApiDbTestStore ==
    LET test_doc == [content |-> "Test document",
                     metadata |-> {<<"test", TRUE>>}]
        docs == store_documents(<<test_doc>>)
    IN /\ MayCall
       /\ nextId <= MaxIds
       /\ rows' = rows \cup aadd_documents_rows(docs, nextId)
       /\ nextId' = nextId + 1
       /\ calls' = Append(calls,
              CallF("GET /db-test", <<>>, {}, "running",
                    [doc_id |-> aadd_documents_ids(docs, nextId)]))
       /\ UNCHANGED <<mode, node, state, steps, path, log, records>>

\* Then get_documents_by_ids(doc_id): what it returns is kept as
\* retrieved_doc and not looked at.
ApiDbTestRead ==
    \E i \in Running :
        /\ calls[i].op = "GET /db-test"
        /\ "retrieved_doc" \notin DOMAIN calls[i].result
        /\ \E selected \in Selected(Matching(calls[i].result.doc_id)) :
               calls' = [calls EXCEPT ![i].result =
                            [doc_id |-> @.doc_id,
                             retrieved_doc |-> get_documents_by_ids(selected)]]
        /\ UNCHANGED <<mode, node, state, steps, path, log, records, rows, nextId>>

\* Then delete_documents(doc_id), which raises: the handler answers 500 with
\* the error after its prefix, and the test document is still stored unless
\* the failing delete removed it.
ApiDbTestDelete ==
    \E i \in Running, d \in SyncDeleteOutcomes :
        /\ calls[i].op = "GET /db-test"
        /\ "retrieved_doc" \in DOMAIN calls[i].result
        /\ rows' = IF d.removed THEN rows \ Matching(calls[i].result.doc_id)
                   ELSE rows
        /\ calls' = [calls EXCEPT
               ![i].outcome = "responded",
               ![i].result = HTTPException(500,
                   IF d.error = "ValueError"
                   THEN "Database test failed: ValueError"
                   ELSE "Database test failed: TypeError")]
        /\ UNCHANGED <<mode, node, state, steps, path, log, records, nextId>>

\* The files list_s3_files finds under the folder of a POST /ingest/s3_pdf.
S3Files == {<<>>, <<"f/a.pdf">>, <<"f/a.pdf", "f/b.pdf">>}

\* POST /ingest/s3_pdf lists the files of the folder; with no file it answers
\* at once, with an empty list of ingested documents.
ApiIngestS3PdfList ==
    \E pdf_files \in S3Files :
        /\ MayCall
        /\ calls' = Append(calls,
               IF pdf_files = <<>>
               THEN CallF("POST /ingest/s3_pdf", pdf_files, {}, "responded",
                          [status_code |-> 200,
                           body |-> [message |-> "PDF documents ingested successfully",
                                     ingested_documents |-> <<>>]])
               ELSE CallF("POST /ingest/s3_pdf", pdf_files, {}, "running",
                          [ingested_docs |-> <<>>]))
        /\ UNCHANGED <<mode, node, state, steps, path, log, records, rows, nextId>>

\* One turn of the loop over the files: the next file is downloaded and
\* parsed and one dictionary, with the file as its source, is stored by a
\* store_documents call of its own; requests of other clients are served
\* between the files.  After the last file the handler answers 200 with the
\* file and id of each.  When the download, the parse or the insert raises,
\* the handler answers 500 and the files stored so far stay stored.
ApiIngestS3PdfFile ==
    \E i \in Running, ok \in BOOLEAN :
        /\ calls[i].op = "POST /ingest/s3_pdf"
        /\ LET pdf_files == calls[i].arg
               ingested_docs == calls[i].result.ingested_docs
               pdf_file == pdf_files[Len(ingested_docs) + 1]
               content == IF pdf_file = "f/a.pdf" THEN "text of f/a.pdf"
                          ELSE "text of f/b.pdf"
               docs == store_documents(
                           <<[content |-> content,
                              metadata |-> {<<"source", pdf_file>>}]>>)
               doc_ids == aadd_documents_ids(docs, nextId)
               appended == Append(ingested_docs,
                                  [file |-> pdf_file, id |-> doc_ids[1]])
           IN IF ok
              THEN /\ nextId <= MaxIds
                   /\ rows' = rows \cup aadd_documents_rows(docs, nextId)
                   /\ nextId' = nextId + 1
                   /\ calls' = [calls EXCEPT ![i] =
                         IF Len(appended) = Len(pdf_files)
                         THEN CallF(@.op, @.arg, {}, "responded",
                                    [status_code |-> 200,
                                     body |-> [message |-> "PDF documents ingested successfully",
                                               ingested_documents |-> appended]])
                         ELSE CallF(@.op, @.arg, {}, "running",
                                    [ingested_docs |-> appended])]
              ELSE /\ calls' = [calls EXCEPT
                         ![i].outcome = "responded",
                         ![i].result = HTTPException(500, "Exception")]
                   /\ UNCHANGED <<rows, nextId>>
        /\ UNCHANGED <<mode, node, state, steps, path, log, records>>

ApiNext ==
    \/ ApiAddDocuments
    \/ ApiIngestText
    \/ ApiGetDocumentsByIds
    \/ ApiDeleteDocuments
    \/ ApiUpdateDocument
    \/ ApiDbTestStore
    \/ ApiDbTestRead
    \/ ApiDbTestDelete
    \/ ApiIngestS3PdfList
    \/ ApiIngestS3PdfFile

ApiSpec == StoreInit /\ [][ApiNext]_vars

\* --------------------------------------------- the store handle (HandleSpec)
\* get_store around the body of a call: the first call creates self.store,
\* every call yields it, and every call disposes of its engine on the way out
\* while self.store stays set.  Calls of independent queries interleave at
\* their awaits.

\* The methods of PGVectorDatabase that enter get_store.
HandleOps ==
    DatabaseOps \cup {"create_custom_table", "insert_test_data",
                      "fetch_all_from_table", "drop_table"}

\* aclose has run on self.store: some call has left get_store.
Disposed == \E i \in 1..Len(calls) : calls[i].outcome # "running"

Handle == IF Disposed THEN "disposed" ELSE "open"

\* if self.store is None: create; yield self.store
GetStoreEnter ==
    \E op \in HandleOps :
        /\ MayCall
        /\ calls' = Append(calls, CallF(op, <<>>, {}, "running",
                                       [yielded |-> Handle, used |-> "not yet"]))
        /\ UNCHANGED <<mode, node, state, steps, path, log, records, rows, nextId>>

\* The body's call on the store it was yielded.
GetStoreUse ==
    \E i \in Running :
        /\ calls[i].result.used = "not yet"
        /\ calls' = [calls EXCEPT ![i].result.used = Handle]
        /\ UNCHANGED <<mode, node, state, steps, path, log, records, rows, nextId>>

\* finally: await self.store.aclose().  delete_documents and update_document
\* leave by their exception.
GetStoreExit ==
    \E i \in Running :
        /\ calls[i].result.used # "not yet"
        /\ calls' = [calls EXCEPT ![i].outcome =
               IF calls[i].op \in {"delete_documents", "update_document"}
               THEN "raised" ELSE "returned"]
        /\ UNCHANGED <<mode, node, state, steps, path, log, records, rows, nextId>>

HandleNext == GetStoreEnter \/ GetStoreUse \/ GetStoreExit

HandleSpec == StoreInit /\ [][HandleNext]_vars

\* ================================================================ properties
Last(s) == s[Len(s)]

\* The oracle responses of the traced query, by position in its log.
IsEntry(i, oracle) == i \in 1..Len(log[1]) /\ log[1][i].oracle = oracle

IsGrade(i, oracle, verdict) == IsEntry(i, oracle) /\ log[1][i].out = verdict

\* C1: the first node a query executes is WEBSEARCH when the router answered
\* 'websearch' and RETRIEVE when it answered 'vectorstore'; no other node is
\* ever first.  Before the first node has run, it is the node due next.
C1_EntryRouting ==
    node[1] # START =>
        /\ IsEntry(1, "router")
        /\ LET first == IF path[1] = <<>> THEN node[1] ELSE path[1][1]
           IN /\ log[1][1].out = "websearch" => first = WEBSEARCH
              /\ log[1][1].out = "vectorstore" => first = RETRIEVE
              /\ first \in {WEBSEARCH, RETRIEVE}

C1_Witness ==
    /\ IsEntry(1, "router") /\ log[1][1].out = "websearch"
    /\ path[1] # <<>> /\ path[1][1] = WEBSEARCH

\* C2: END is entered only by a GENERATE step whose hallucination grader
\* answered grounded and whose answer grader answered addresses-question.
C2_EndOnlyWhenUseful ==
    node[1] = END =>
        /\ path[1] # <<>> /\ Last(path[1]) = GENERATE
        /\ IsEntry(Len(log[1]) - 2, "generator")
        /\ IsGrade(Len(log[1]) - 1, "hallucination", TRUE)
        /\ IsGrade(Len(log[1]), "answer", TRUE)

C2_Witness == node[1] = END /\ Len(path[1]) > 1

\* C3: after a GENERATE step whose generation the hallucination grader found
\* not grounded, the node executed next is GENERATE: it is due next, and when
\* the run went on, the next oracle called was the generator.
C3_NotGroundedRetries ==
    \A i \in 1..Len(log[1]) :
        IsGrade(i, "hallucination", FALSE) =>
            IF i = Len(log[1])
            THEN node[1] = GENERATE /\ Last(path[1]) = GENERATE
            ELSE IsEntry(i + 1, "generator")

C3_Witness ==
    \E i \in 1..Len(log[1]) :
        /\ IsGrade(i, "hallucination", FALSE)
        /\ IsEntry(i + 1, "generator")
        /\ Len(path[1]) >= 2
        /\ path[1][Len(path[1]) - 1] = GENERATE /\ Last(path[1]) = GENERATE

\* C4: after a GENERATE step found grounded but not addressing the question,
\* the node executed next is WEBSEARCH, and GENERATE follows it.
C4_NotUsefulSearches ==
    \A i \in 1..Len(log[1]) :
        IsGrade(i, "answer", FALSE) =>
            /\ IsGrade(i - 1, "hallucination", TRUE)
            /\ IF i = Len(log[1])
               THEN node[1] = WEBSEARCH /\ Last(path[1]) = GENERATE
               ELSE /\ IsEntry(i + 1, "web")
                    /\ IF i + 1 = Len(log[1])
                       THEN node[1] = GENERATE /\ Last(path[1]) = WEBSEARCH
                       ELSE IsEntry(i + 2, "generator")

C4_Witness ==
    \E i \in 1..Len(log[1]) :
        /\ IsGrade(i, "answer", FALSE)
        /\ IsEntry(i + 1, "web")
        /\ IsEntry(i + 2, "generator")

\* C5: a GENERATE step found grounded and addressing the question ends the
\* run: END is the node reached, nothing runs after it, and the generation in
\* the final state is the output of that GENERATE step.
C5_UsefulTerminates ==
    \A i \in 1..Len(log[1]) :
        IsGrade(i, "answer", TRUE) =>
            /\ i = Len(log[1])
            /\ node[1] = END
            /\ Last(path[1]) = GENERATE
            /\ IsEntry(i - 2, "generator")
            /\ state[1].generation = log[1][i - 2].out
            /\ ~ENABLED Next

\* The second generation attempt is the useful one.
C5_Witness ==
    /\ node[1] = END
    /\ IsGrade(Len(log[1]), "answer", TRUE)
    /\ \E i \in 1..Len(log[1]) :
           IsEntry(i, "generator") /\ log[1][i].out # state[1].generation

\* C6: after GRADE_DOCUMENTS the next node is WEBSEARCH when the web_search
\* flag is set or no document is left, and GENERATE otherwise.
C6_DecideToGenerate ==
    (path[1] # <<>> /\ Last(path[1]) = GRADE_DOCUMENTS) =>
        /\ (state[1].web_search \/ state[1].documents = <<>>) => node[1] = WEBSEARCH
        /\ (~state[1].web_search /\ state[1].documents # <<>>) => node[1] = GENERATE
        /\ node[1] \in {WEBSEARCH, GENERATE}

\* One document was dropped and one kept: the flag alone sends the run to WEBSEARCH.
C6_Witness ==
    /\ path[1] # <<>> /\ Last(path[1]) = GRADE_DOCUMENTS
    /\ state[1].web_search /\ state[1].documents # <<>>
    /\ node[1] = WEBSEARCH

\* C7: whatever the state holds, GRADE_DOCUMENTS is executed next after
\* RETRIEVE and GENERATE is executed next after WEBSEARCH.
C7_UnconditionalEdges ==
    \A i \in 1..Len(path[1]) :
        LET next == IF i = Len(path[1]) THEN node[1] ELSE path[1][i + 1]
        IN /\ path[1][i] = RETRIEVE => next = GRADE_DOCUMENTS
           /\ path[1][i] = WEBSEARCH => next = GENERATE

C7_Witness ==
    /\ Len(path[1]) >= 4
    /\ SubSeq(path[1], 1, 4) = <<RETRIEVE, GRADE_DOCUMENTS, WEBSEARCH, GENERATE>>

\* C8: with a hallucination grader that always answers not-grounded, or an
\* answer grader that always answers does-not-address, the run executes
\* GENERATE again and again without end and never reaches END.
C8_UnboundedRetry ==
    /\ []<>(node[1] = GENERATE)
    /\ []<><<PersistentGenerate>>_vars
    /\ [](node[1] # END)

\* C8, as the code has it: with a hallucination grader that always answers
\* not-grounded, or an answer grader that always answers does-not-address, the
\* run never reaches END and every GENERATE step leads back to GENERATE,
\* directly or over WEBSEARCH, until the RecursionLimit supersteps of the run
\* are used up; the run then ends with GraphRecursionError, and in no other way.
C8_RetryUntilRecursionLimit ==
    /\ [](node[1] # END)
    /\ [][node[1] = GENERATE => node'[1] \in {GENERATE, WEBSEARCH, Raised}]_vars
    /\ [](node[1] = Raised => steps[1] = RecursionLimit)
    /\ <>[](node[1] = Raised)

\* Generations were rejected until the supersteps ran out.
C8_Witness ==
    /\ mode = "offtopic"
    /\ node[1] = Raised
    /\ steps[1] = RecursionLimit
    /\ state[1].generation # ""
    /\ state[1].documents # <<>>

\* The responses received so far are those of the termination scenario: router
\* 'vectorstore', a non-empty retrieval, every document graded relevant, the
\* first generation found grounded and addressing the question.
TerminationScenario ==
    /\ IsEntry(1, "router") => log[1][1].out = "vectorstore"
    /\ IsEntry(2, "store") => log[1][2].out # <<>>
    /\ IsEntry(3, "relevance") =>
           \A j \in 1..Len(log[1][3].out) : log[1][3].out[j]
    /\ IsEntry(5, "hallucination") => log[1][5].out
    /\ IsEntry(6, "answer") => log[1][6].out

\* C10: in the termination scenario the run executes exactly RETRIEVE,
\* GRADE_DOCUMENTS, GENERATE and then stands at END, and web_search is false in
\* every state of the run.
C10_TerminationScenario ==
    TerminationScenario =>
        LET expected == <<RETRIEVE, GRADE_DOCUMENTS, GENERATE, END>>
        IN /\ ~state[1].web_search
           /\ Len(path[1]) <= 3
           /\ path[1] = SubSeq(expected, 1, Len(path[1]))
           /\ node[1] # START => node[1] = expected[Len(path[1]) + 1]
           /\ Len(path[1]) = 3 => node[1] = END

C10_Witness ==
    /\ TerminationScenario
    /\ node[1] = END
    /\ path[1] = <<RETRIEVE, GRADE_DOCUMENTS, GENERATE>>
    /\ Len(state[1].documents) = NumDocs

\* The responses received so far are those of the fallback scenario: router
\* 'vectorstore' and no retrieved document graded relevant.
FallbackScenario ==
    /\ IsEntry(1, "router") => log[1][1].out = "vectorstore"
    /\ IsEntry(3, "relevance") =>
           \A j \in 1..Len(log[1][3].out) : ~log[1][3].out[j]

\* C11: in the fallback scenario the run begins RETRIEVE, GRADE_DOCUMENTS,
\* WEBSEARCH, GENERATE; web_search is false before GRADE_DOCUMENTS and true in
\* the state GRADE_DOCUMENTS produces.
C11_FallbackScenario ==
    FallbackScenario =>
        LET expected == <<RETRIEVE, GRADE_DOCUMENTS, WEBSEARCH, GENERATE>>
            n == Min(Len(path[1]), 4)
        IN /\ SubSeq(path[1], 1, n) = SubSeq(expected, 1, n)
           /\ (node[1] # START /\ Len(path[1]) < 4) =>
                  node[1] = expected[Len(path[1]) + 1]
           /\ Len(path[1]) < 2 => ~state[1].web_search
           /\ Len(path[1]) = 2 => state[1].web_search

\* Two documents were retrieved, both were graded irrelevant, and the run went
\* on through WEBSEARCH to GENERATE.
C11_Witness ==
    /\ FallbackScenario
    /\ IsEntry(2, "store") /\ Len(log[1][2].out) = NumDocs
    /\ Len(path[1]) >= 4
    /\ path[1][3] = WEBSEARCH /\ path[1][4] = GENERATE

\* C12: a GRADE_DOCUMENTS step leaves in documents exactly the documents it
\* found there whose grade is relevant, in their order, and sets web_search
\* exactly when a document was dropped or none is left.
C12_GradeFiltersAndFlags ==
    [][(Len(path'[1]) = Len(path[1]) + 1 /\ Last(path'[1]) = GRADE_DOCUMENTS) =>
        LET before == state[1].documents
            after == state'[1].documents
            grades == Last(log'[1]).out
            kept == {i \in 1..Len(before) : grades[i]}
        IN /\ Len(grades) = Len(before)
           /\ Len(after) = Cardinality(kept)
           /\ \A j \in 1..Len(after) :
                  \E i \in kept :
                      /\ after[j] = before[i]
                      /\ Cardinality({h \in kept : h <= i}) = j
           /\ state'[1].web_search <=> (Len(after) < Len(before) \/ after = <<>>)
      ]_vars

\* The first of two retrieved documents was dropped and the second kept.
C12_Witness ==
    /\ path[1] = <<RETRIEVE, GRADE_DOCUMENTS>>
    /\ IsEntry(2, "store") /\ Len(log[1][2].out) = 2
    /\ state[1].documents = <<log[1][2].out[2]>>
    /\ state[1].web_search

\* C14: no step of a run changes question or client_topics: they keep the
\* values supplied at entry.
C14_QuestionAndTopicsImmutable ==
    [][/\ state'[1].question = state[1].question
       /\ state'[1].client_topics = state[1].client_topics]_vars

\* Every kind of node has run.
C14_Witness ==
    /\ Len(path[1]) >= 4
    /\ \A n \in Nodes : \E i \in 1..Len(path[1]) : path[1][i] = n
    /\ state[1].question \in Questions
    /\ state[1].client_topics \in TopicLists

HasRun(n) == \E i \in 1..Len(path[1]) : path[1][i] = n

\* C15: generation is empty until GENERATE has run; GENERATE runs, and the
\* hallucination and answer graders are called, only after a RETRIEVE or a
\* WEBSEARCH step; END is reached only after a GENERATE step.
C15_Meaningfulness ==
    /\ ~HasRun(GENERATE) => state[1].generation = ""
    /\ \A i \in 1..Len(path[1]) :
           path[1][i] = GENERATE =>
               \E j \in 1..(i - 1) : path[1][j] \in {RETRIEVE, WEBSEARCH}
    /\ \A i \in 1..Len(log[1]) :
           log[1][i].oracle \in {"generator", "hallucination", "answer"} =>
               \E j \in 1..(i - 1) : log[1][j].oracle \in {"store", "web"}
    /\ node[1] = GENERATE => HasRun(RETRIEVE) \/ HasRun(WEBSEARCH)
    /\ node[1] = END => HasRun(GENERATE)

\* The shortest run: web search, one generation, END.
C15_Witness ==
    /\ node[1] = END
    /\ path[1] = <<WEBSEARCH, GENERATE>>
    /\ state[1].generation # ""

\* C13: a RETRIEVE step leaves in documents exactly the first k = 5 hits of the
\* store's ranking for the question: at most 5 documents, and none of the
\* documents the state held before the step unless the search returned it.
C13_RetrieveReplaces ==
    [][(Len(path'[1]) = Len(path[1]) + 1 /\ Last(path'[1]) = RETRIEVE) =>
        LET hits == Last(log'[1]).out
            after == state'[1].documents
        IN /\ Last(log'[1]).oracle = "store"
           /\ Len(after) = Min(K, Len(hits))
           /\ Len(after) <= 5
           /\ \A i \in 1..Len(after) : after[i] = hits[i]
      ]_vars

\* The caller supplied a web document, the index ranked more than k documents,
\* and RETRIEVE has run.
C13_Witness ==
    /\ mode = "wide"
    /\ path[1] = <<RETRIEVE>>
    /\ log[1][1] = Entry("caller", <<WebDoc(1)>>)
    /\ Len(Last(log[1]).out) = NumIndexed
    /\ Len(state[1].documents) = K

Failures == {i \in 1..Len(log[1]) : log[1][i].oracle = "error"}

\* C16: once a store or oracle call has failed, the failure is the last thing
\* the query did: the exception has reached the caller, no node runs
\* afterwards and END is not reached; and the caller sees an exception only
\* when a call failed.
C16_ErrorPropagation ==
    /\ Failures # {} =>
           /\ Failures = {Len(log[1])}
           /\ node[1] = Raised
           /\ ~ENABLED FailNext
    /\ node[1] = Raised => Failures # {}
    /\ node[1] = END => Failures = {}

\* The answer grader raised after RETRIEVE, GRADE_DOCUMENTS and GENERATE had
\* run normally.
C16_Witness ==
    /\ mode = "fail"
    /\ node[1] = Raised
    /\ Len(path[1]) >= 3
    /\ Last(log[1]) = Entry("error", "answer")

IsCall(i, op) == i \in 1..Len(calls) /\ calls[i].op = op

\* C17: store_documents on n documents returns n distinct ids, the i-th being
\* the id of the row that holds the i-th document, and a get_all_ids made
\* afterwards (with no delete_documents or update_document in between) returns
\* every one of them.
C17_StoreReturnsIds ==
    \A i \in StoreCalls :
        LET documents == calls[i].arg
            ids == calls[i].result
        IN /\ calls[i].outcome = "returned"
           /\ Len(ids) = Len(documents)
           /\ \A j, h \in 1..Len(ids) : ids[j] = ids[h] => j = h
           /\ i = Len(calls) =>
                  \A j \in 1..Len(ids) :
                      \E r \in rows : /\ r.custom_id = ids[j]
                                      /\ r.document = documents[j].content
           /\ \A k \in (i + 1)..Len(calls) :
                  (/\ IsCall(k, "get_all_ids")
                   /\ \A h \in i..k : ~IsCall(h, "delete_documents")
                   /\ \A h \in i..k : ~IsCall(h, "update_document")) =>
                      /\ calls[k].outcome = "returned"
                      /\ Range(ids) \subseteq Range(calls[k].result)

\* Two documents were stored on top of an earlier one, and get_all_ids followed.
C17_Witness ==
    /\ Len(calls) = 3
    /\ IsCall(1, "store_documents") /\ Len(calls[1].arg) = 1
    /\ IsCall(2, "store_documents") /\ Len(calls[2].arg) = 2
    /\ IsCall(3, "get_all_ids") /\ Len(calls[3].result) = 3

\* C18: get_documents_by_ids on the ids store_documents returned for a single
\* document D returns exactly one document, with D's content and with every
\* key/value pair of D's metadata.
C18_StoreRoundTrip ==
    \A i \in StoreCalls :
        (/\ Len(calls[i].arg) = 1
         /\ IsCall(i + 1, "get_documents_by_ids")
         /\ calls[i + 1].arg = calls[i].result) =>
            LET D == calls[i].arg[1]
                got == calls[i + 1].result
            IN /\ calls[i + 1].outcome = "returned"
               /\ Len(got) = 1
               /\ got[1].content = D.content
               /\ "metadata" \in DOMAIN D => D.metadata \subseteq got[1].metadata

\* A document with metadata was stored into a collection that already held
\* another document, and was read back by the id returned.
C18_Witness ==
    /\ Len(calls) = 3
    /\ IsCall(1, "store_documents") /\ Len(calls[1].arg) = 1
    /\ IsCall(2, "store_documents") /\ Len(calls[2].arg) = 1
    /\ "metadata" \in DOMAIN calls[2].arg[1]
    /\ IsCall(3, "get_documents_by_ids") /\ calls[3].arg = calls[2].result
    /\ Len(calls[3].result) = 1

\* C19: get_documents_by_ids on ids that are all live returns, at each
\* position, the document stored under the id requested at that position.
C19_RequestedOrder ==
    (/\ IsCall(Len(calls), "get_documents_by_ids")
     /\ Matching(Last(calls).arg) # {}
     /\ \A j \in 1..Len(Last(calls).arg) :
            \E r \in rows : r.custom_id = Last(calls).arg[j]) =>
        LET ids == Last(calls).arg
            got == Last(calls).result
        IN /\ Len(got) = Len(ids)
           /\ \A j \in 1..Len(ids) :
                  \E r \in rows : /\ r.custom_id = ids[j]
                                  /\ got[j].content = r.document
                                  /\ got[j].metadata = r.cmetadata

\* C20: when delete_documents(ids) has been called it has returned, and no row
\* of the table carries one of ids.
C20_DeleteCompleteness ==
    IsCall(Len(calls), "delete_documents") =>
        /\ Last(calls).outcome = "returned"
        /\ Matching(Last(calls).arg) = {}

\* Call h is a delete or an update of id.
Touches(h, id) ==
    \/ calls[h].op = "delete_documents" /\ id \in Range(calls[h].arg)
    \/ /\ calls[h].op \in {"update_document", "AsyncPGVector.update_document"}
       /\ calls[h].arg.id = id

\* id was returned by a store_documents call before call i, and no call in
\* between may have removed its row.
WasLive(id, i) ==
    \E j \in StoreCalls :
        /\ j < i
        /\ id \in Range(calls[j].result)
        /\ \A h \in (j + 1)..(i - 1) : ~Touches(h, id)

\* C21: a get_documents_by_ids([id]) made right after update_document(id, c, m)
\* on a live id returns exactly one document, with content c and metadata m.
C21_UpdateVisibleUnderId ==
    \A i \in 2..Len(calls) :
        (/\ IsCall(i - 1, "update_document")
         /\ WasLive(calls[i - 1].arg.id, i - 1)
         /\ IsCall(i, "get_documents_by_ids")
         /\ calls[i].arg = <<calls[i - 1].arg.id>>) =>
            calls[i].result = <<[content |-> calls[i - 1].arg.content,
                                 metadata |-> OrEmpty(calls[i - 1].arg)]>>

\* C22: an update_document(id, c, m) step on a live id leaves no row with the
\* old content under id, adds exactly one row, which holds c and m, and leaves
\* the number of rows unchanged.
C22_UpdateReplacesContent ==
    [][(/\ Len(calls') = Len(calls) + 1
        /\ Last(calls').op = "update_document"
        /\ Matching(<<Last(calls').arg.id>>) # {}) =>
          LET u == Last(calls').arg
          IN /\ \A r \in rows' : r.custom_id = u.id => r \notin rows
             /\ \E r \in rows' \ rows :
                    /\ rows' \ rows = {r}
                    /\ r.document = u.content
                    /\ r.cmetadata = OrEmpty(u)
             /\ Cardinality(rows') = Cardinality(rows)
      ]_vars

\* C24: every get_documents_by_ids call returns, with at most as many
\* documents as ids were requested; the documents are exactly those of the
\* rows whose id was requested, and ids without a row contribute nothing.
C24_AbsentIdsOmitted ==
    /\ \A i \in 1..Len(calls) :
           calls[i].op = "get_documents_by_ids" =>
               /\ calls[i].outcome = "returned"
               /\ Len(calls[i].result) <= Len(calls[i].arg)
    /\ IsCall(Len(calls), "get_documents_by_ids") =>
           LET ids == Last(calls).arg
               got == Last(calls).result
               live == {r \in rows : \E k \in 1..Len(ids) : ids[k] = r.custom_id}
           IN /\ Len(got) = Cardinality(live)
              /\ \A r \in live :
                     \E j \in 1..Len(got) :
                         got[j] = [content |-> r.document, metadata |-> r.cmetadata]
              /\ \A j \in 1..Len(got) :
                     \E r \in live :
                         got[j] = [content |-> r.document, metadata |-> r.cmetadata]

\* A stored id and an id that was never generated were requested together:
\* one document came back.
C24_Witness ==
    /\ IsCall(1, "store_documents") /\ calls[1].result # <<>>
    /\ IsCall(Len(calls), "get_documents_by_ids")
    /\ Last(calls).arg = <<calls[1].result[1], nextId>>
    /\ Len(Last(calls).result) = 1

\* C23: whenever update_document of the store has been called on a live id and
\* nothing else has touched that id since, the record is present in one of its
\* versions: a row under the old id, or a row with the new content and
\* metadata.  This is to hold while the call runs and after it has failed.
C23_UpdateAtomic ==
    \A i \in 1..Len(calls) :
        (/\ IsCall(i, "AsyncPGVector.update_document")
         /\ WasLive(calls[i].arg.id, i)
         /\ \A h \in (i + 1)..Len(calls) : ~Touches(h, calls[i].arg.id)) =>
            \E r \in rows :
                \/ r.custom_id = calls[i].arg.id
                \/ /\ r.document = calls[i].arg.content
                   /\ r.cmetadata = OrEmpty(calls[i].arg)

\* C25: every check_health call returns: True when creating the store, the
\* read and the close all succeeded, False when any of them failed.
C25_HealthCheckNeverRaises ==
    \A i \in 1..Len(calls) :
        IsCall(i, "check_health") =>
            /\ calls[i].outcome = "returned"
            /\ calls[i].result = (FailedOf(calls[i]) = {})

C25_Witness ==
    /\ \E i \in 1..Len(calls) :
           IsCall(i, "check_health") /\ calls[i].failed = {"create"}
    /\ \E i \in 1..Len(calls) :
           IsCall(i, "check_health") /\ calls[i].failed = {"close"}
              /\ calls[i].result = FALSE
    /\ \E i \in 1..Len(calls) :
           IsCall(i, "check_health") /\ calls[i].result = TRUE

\* C26: every finished call other than check_health that met a backend
\* failure ended by raising.
C26_OnlyHealthCheckConverts ==
    \A i \in 1..Len(calls) :
        (/\ ~IsCall(i, "check_health")
         /\ FailedOf(calls[i]) # {}) =>
            calls[i].outcome = "raised"
\* The mapping a dict holds, whatever the order of its items.
Mapping(doc) ==
    LET d == metadata_or_empty(doc)
    IN {<<d[i].key, d[i].value>> : i \in 1..Len(d)}

\* C27: two generate_digest calls on the same document return the same digest,
\* and two calls on documents that differ in content or in the metadata
\* mapping (None counting as the empty mapping) return different digests.
C27_DigestDeterministicAndSensitive ==
    \A i, j \in 1..Len(calls) :
        (IsCall(i, "generate_digest") /\ IsCall(j, "generate_digest")) =>
            /\ calls[i].arg = calls[j].arg => calls[i].result = calls[j].result
            /\ (\/ calls[i].arg.page_content # calls[j].arg.page_content
                \/ Mapping(calls[i].arg) # Mapping(calls[j].arg)) =>
                   calls[i].result # calls[j].result

\* A document whose content ends like the serialised metadata of another one.
C27_Witness ==
    /\ \E i, j \in 1..Len(calls) :
           /\ IsCall(i, "generate_digest") /\ IsCall(j, "generate_digest")
           /\ calls[i].arg = [page_content |-> <<"x">>,
                               metadata |-> <<Item("a", 1)>>]
           /\ calls[j].arg.page_content =
                  <<"x", "{", "\"", "a", "\"", ":", " ", "1", "}">>
           /\ calls[i].result # calls[j].result

\* C28: two generate_digest calls on documents with the same content and the
\* same metadata mapping return the same digest.
C28_DigestIgnoresKeyOrder ==
    \A i, j \in 1..Len(calls) :
        (/\ IsCall(i, "generate_digest") /\ IsCall(j, "generate_digest")
         /\ calls[i].arg.page_content = calls[j].arg.page_content
         /\ Mapping(calls[i].arg) = Mapping(calls[j].arg)) =>
            calls[i].result = calls[j].result

Digest(r) == source_id(r.cmetadata, "digest")

BatchDigests(docs) ==
    {source_id(docs[i].metadata, "digest") :
        i \in {j \in 1..Len(docs) : HasKey(docs[j].metadata, "digest")}}

\* C29: an add_documents(B) step of the service returns and leaves the rows it
\* found plus one new row for each document of B, duplicates included.
C29_AppendInsertsAll ==
    [][(/\ Len(calls') = Len(calls) + 1
        /\ Last(calls').op = "add_documents") =>
          /\ Last(calls').outcome = "returned"
          /\ rows \subseteq rows'
          /\ Cardinality(rows') = Cardinality(rows) + Len(Last(calls').arg)
      ]_vars

StaleVersions(doc) ==
    {r \in rows :
        /\ HasKey(doc.metadata, "source") /\ HasKey(r.cmetadata, "source")
        /\ source_id(r.cmetadata, "source") = source_id(doc.metadata, "source")
        /\ Digest(r) # source_id(doc.metadata, "digest")}

\* C31: an update_collection(B, "incremental") step removes every row that
\* holds another version of the source of a document of B, and leaves a row
\* with the content and metadata of that document.
C31_IncrementalReplacesChanged ==
    [][(/\ Len(calls') = Len(calls) + 1
        /\ Last(calls').op = "update_collection") =>
          \A doc \in Range(Last(calls').arg) :
              StaleVersions(doc) # {} =>
                  /\ StaleVersions(doc) \cap rows' = {}
                  /\ \E r \in rows' : /\ r.document = doc.page_content
                                      /\ r.cmetadata = doc.metadata
      ]_vars

\* C32: a replace_collection(B) step leaves one row for each distinct document
\* of B and no other row.
C32_FullReplaceExact ==
    [][(/\ Len(calls') = Len(calls) + 1
        /\ Last(calls').op = "replace_collection") =>
          LET docs == deduplicate_in_order(Last(calls').arg)
          IN /\ Cardinality(rows') = Len(docs)
             /\ \A r \in rows' : \E doc \in Range(docs) :
                    r.document = doc.page_content /\ r.cmetadata = doc.metadata
             /\ \A r \in rows : Digest(r) \notin BatchDigests(docs) => r \notin rows'
      ]_vars
\* C33: a GET /documents/ step for at least one id whose database call did not
\* fail answers 404 when some requested id has no row and 200 when every
\* requested id has one; a step whose database call failed answers 500.
C33_FetchDistinguishesNotFound ==
    [][(/\ Len(calls') = Len(calls) + 1
        /\ Last(calls').op = "GET /documents/"
        /\ Last(calls').arg # <<>>) =>
          LET ids == Last(calls').arg
              absent == {id \in Range(ids) : Matching(<<id>>) = {}}
              status == Last(calls').result.status_code
          IN /\ Last(calls').failed # {} => status = 500
             /\ (Last(calls').failed = {} /\ absent # {}) => status = 404
             /\ (Last(calls').failed = {} /\ absent = {}) => status = 200
      ]_vars
\* C34: in the responses a query has received, every generation is followed
\* at once by one response of the hallucination grader, which follows nothing
\* else; a response of the answer grader comes only, and always, right after
\* a hallucination response that says grounded.
C34_GraderOrdering ==
    LET l == log[1]
    IN \A i \in 1..Len(l) :
           /\ l[i].oracle = "generator" =>
                  i < Len(l) /\ l[i + 1].oracle = "hallucination"
           /\ l[i].oracle = "hallucination" =>
                  /\ i > 1 /\ l[i - 1].oracle = "generator"
                  /\ l[i].out = TRUE => i < Len(l) /\ l[i + 1].oracle = "answer"
           /\ l[i].oracle = "answer" =>
                  /\ i > 1 /\ l[i - 1].oracle = "hallucination"
                  /\ l[i - 1].out = TRUE

\* A generation judged not grounded, then one judged grounded and graded
\* against the question.
C34_Witness ==
    LET l == log[1]
    IN \E i, j \in 1..Len(l) :
           /\ i < j
           /\ l[i].oracle = "hallucination" /\ l[i].out = FALSE
           /\ l[i + 1].oracle = "generator"
           /\ l[j].oracle = "hallucination" /\ l[j].out = TRUE
           /\ l[j + 1].oracle = "answer"
\* C35: every store_documents, retrieve_documents, get_all_ids,
\* get_documents_by_ids, delete_documents and update_document call on the
\* shared PGVectorDatabase is handed, and works on, a store that no call has
\* disposed of.
C35_OpenHandle ==
    \A i \in 1..Len(calls) :
        calls[i].op \in DatabaseOps \ {"check_health"} =>
            /\ calls[i].result.yielded = "open"
            /\ calls[i].result.used # "disposed"
\* C38: every finished update_document call of the store has returned, True
\* when its delete and its add both succeeded and False when one of them
\* failed.
C38_UpdateDocumentResult ==
    \A i \in 1..Len(calls) :
        (IsCall(i, "AsyncPGVector.update_document")
            /\ calls[i].outcome # "running") =>
            /\ calls[i].outcome = "returned"
            /\ calls[i].result = (calls[i].failed = {})
\* C36: whatever the router and the graders answer, and in every state a run
\* reaches, each conditional function returns a key of its edge map, and the
\* run never stands at a place that no edge leads to.
C36_RoutingTotal ==
    /\ \A d \in Datasources : route_question(d) \in DOMAIN EntryEdges
    /\ decide_to_generate(state[1]) \in DOMAIN GradeDocumentsEdges
    /\ \A g, a \in BOOLEAN :
           grade_generation_grounded_in_documents_and_question(g, a)
               \in DOMAIN GenerateEdges
    /\ node[1] \in Nodes \cup {START, END}

\* A finished run that went through document grading, a web search and a
\* retried generation.
C36_Witness ==
    /\ node[1] = END
    /\ \E i, j, k \in 1..Len(path[1]) :
           /\ path[1][i] = GRADE_DOCUMENTS
           /\ path[1][j] = WEBSEARCH
           /\ k < Len(path[1])
           /\ path[1][k] = GENERATE /\ path[1][k + 1] = GENERATE
====
